---- MODULE Spec2Model ----
(***************************************************************************)
(* A model of examples/nodeproppred/mag/rgcn.py: the full-batch RGCN       *)
(* training script for ogbn-mag.                                           *)
(*                                                                         *)
(* Spec      the script main(): adjacency conversion, construction of the  *)
(*           RGCN, and the runs/epochs loop with every forward pass.       *)
(*           Tensors are heap objects (rows, number of in-place writes),   *)
(*           sparse matrices carry their shape and the relation whose      *)
(*           edges they hold.                                              *)
(* SpecLayer RGCNConv.forward on numeric tensors (one channel, integer     *)
(*           values), run once over all node and edge types and once as    *)
(*           the restricted last layer of RGCN.__init__.                   *)
(***************************************************************************)
EXTENDS Integers, Sequences, FiniteSets, TLC

VARIABLES
    pc,               \* position in main()
    args,             \* the parsed command line (num_layers, epochs, runs, log_steps)
    num_nodes_dict,   \* data.num_nodes_dict
    edge_index_dict,  \* data.edge_index_dict (the keys; None after the conversion)
    loaded,           \* the relations of the dataset as loaded (history)
    x_dict,           \* data.x_dict: node type -> tensor
    adj_t_dict,       \* data.adj_t_dict
    conv_i,           \* position of the conversion loop in edge_index_dict
    model,            \* the RGCN module
    heap,             \* tensor objects
    param_tag,        \* who wrote each learnable parameter last
    optimizer,        \* the Adam optimizer of the current run
    run, epoch,       \* loop variables of main()
    loss, result,     \* values returned by train() and test()
    events,           \* calls made by main(), in order (history)
    printed,          \* console lines of the epoch log (history)
    fwd,              \* the frame of the RGCN.forward call in progress
    lay               \* the frame of the numeric RGCNConv.forward (SpecLayer)

vars == <<pc, args, num_nodes_dict, edge_index_dict, loaded, x_dict, adj_t_dict,
          conv_i, model, heap, param_tag, optimizer, run, epoch, loss, result,
          events, printed, fwd, lay>>

(***************************************************************************)
(* Bounds of the model.                                                    *)
(***************************************************************************)
MaxRuns == 2
MaxEpochs == 2
MaxLayers == 2
MaxRel == 2

None == [none |-> TRUE]

(***************************************************************************)
(* Python dicts keep insertion order: a dict is a sequence of items, and   *)
(* assigning to a key that is present replaces the value in place.         *)
(***************************************************************************)
DictKeys(d) == [i \in 1..Len(d) |-> d[i].k]

DictKeySet(d) == {d[i].k : i \in 1..Len(d)}

DictHas(d, key) == key \in DictKeySet(d)

DictGet(d, key) == d[CHOOSE i \in 1..Len(d) : d[i].k = key].v

DictSet(d, key, val) ==
    IF DictHas(d, key)
    THEN [i \in 1..Len(d) |-> IF d[i].k = key THEN [k |-> key, v |-> val] ELSE d[i]]
    ELSE Append(d, [k |-> key, v |-> val])

SeqSet(s) == {s[i] : i \in 1..Len(s)}

(***************************************************************************)
(* The dataset.  Node types and relations of ogbn-mag, and two relations   *)
(* more between node types that ogbn-mag already relates.                  *)
(***************************************************************************)
MagRelations ==
    << <<"author", "affiliated_with", "institution">>,
       <<"author", "writes", "paper">>,
       <<"paper", "cites", "paper">>,
       <<"paper", "has_topic", "field_of_study">> >>

RelationUniverse ==
    { <<"author", "writes", "paper">>,
      <<"paper", "cites", "paper">>,
      <<"author", "reviews", "paper">>,
      <<"paper", "to", "author">> }

NumNodesOf(t) ==
    CASE t = "paper" -> 3
      [] t = "author" -> 2
      [] t = "institution" -> 1
      [] OTHER -> 2

\* The order in which the dataset lists its node types.
NodeTypeOrder == <<"author", "field_of_study", "institution", "paper">>

\* Sequences without repetition over S, of length at most n.
DistinctSeqs(S, n) ==
    {s \in UNION {[1..k -> S] : k \in 0..n} :
        \A i, j \in 1..Len(s) : i # j => s[i] # s[j]}

\* The relation sets a dataset may hold: ogbn-mag's, and every short list
\* over RelationUniverse, in every insertion order.
Schemas == {MagRelations} \cup DistinctSeqs(RelationUniverse, MaxRel)

\* The datasets: ogbn-mag has features for papers only (all_x FALSE); two
\* datasets have features for every node type.
Datasets ==
    {[relations |-> rels, all_x |-> FALSE] : rels \in Schemas}
    \cup {[relations |-> rels, all_x |-> TRUE] :
            rels \in {MagRelations, << <<"author", "writes", "paper">> >>}}

LayersDom == -1..MaxLayers
EpochsDom == 0..MaxEpochs
RunsDom == 0..MaxRuns
LogStepsDom == {-2, 0, 1, 2}

\* Python's %: the result takes the sign of the divisor (b # 0).
PyMod(a, b) == IF b > 0 THEN a % b ELSE -((-a) % (-b))

(***************************************************************************)
(* Tensors.  A tensor object has a number of rows and counts the in-place  *)
(* operations applied to it since it was created.                          *)
(***************************************************************************)
NewTensor(rows) == [rows |-> rows, writes |-> 0]

InPlace(h, id) == [h EXCEPT ![id].writes = @ + 1]

\* Tensor.add_(other) broadcasts other to the shape of self.
AddInPlaceOk(selfRows, otherRows) == otherRows = selfRows \/ otherRows = 1

(***************************************************************************)
(* Sparse matrices: the shape, the relation whose edges the matrix holds   *)
(* and how they are laid out ("adj": row = source, col = destination;     *)
(* "t": transposed; "sym": both directions).                              *)
(***************************************************************************)
SparseTensor(rel, sizes) ==
    [rows |-> sizes[1], cols |-> sizes[2], rel |-> rel, form |-> "adj"]

Transpose(adj) == [adj EXCEPT !.rows = adj.cols, !.cols = adj.rows, !.form = "t"]

ToSymmetric(adj) == [adj EXCEPT !.form = "sym"]

(***************************************************************************)
(* RGCNConv                                                                *)
(***************************************************************************)
\* The key of a relation in rel_lins: ModuleDict takes strings only.
KeyStr(key) == key[1] \o "_" \o key[2] \o "_" \o key[3]

RGCNConvInit(in_channels, out_channels, node_types, edge_types) ==
    [in_channels |-> in_channels,
     out_channels |-> out_channels,
     node_types |-> node_types,
     edge_types |-> edge_types,
     rel_lins |-> {KeyStr(edge_types[i]) : i \in 1..Len(edge_types)},
     root_lins |-> SeqSet(node_types)]

\* The parameters RGCNConv.reset_parameters re-initialises, for layer i.
ConvResetParameters(conv, i) ==
    {<<"rel", i, k>> : k \in conv.rel_lins} \cup {<<"root", i, k>> : k \in conv.root_lins}

\* for key in self.node_types: out_dict[key] = self.root_lins[key](x_dict[key])
RECURSIVE RootLoop(_, _, _, _)
RootLoop(conv, xd, acc, i) ==
    IF i > Len(conv.node_types) \/ acc.err THEN acc
    ELSE LET key == conv.node_types[i]
         IN IF ~DictHas(xd, key) \/ key \notin conv.root_lins
            THEN [acc EXCEPT !.err = TRUE]
            ELSE RootLoop(conv, xd,
                          [acc EXCEPT
                              !.out = DictSet(@, key, Len(acc.heap) + 1),
                              !.heap = Append(@, NewTensor(acc.heap[DictGet(xd, key)].rows))],
                          i + 1)

\* What one iteration of the edge loop looks up and multiplies.
EdgeCheck(conv, xd, adj, acc, key) ==
    LET src_in == DictHas(xd, key[1])
        adj_in == DictHas(adj, key)
        dst_in == DictHas(acc.out, key[3])
    IN [key |-> key,
        src_in |-> src_in,
        adj_in |-> adj_in,
        lin_in |-> KeyStr(key) \in conv.rel_lins,
        dst_in |-> dst_in,
        adj_rows |-> IF adj_in THEN DictGet(adj, key).rows ELSE -1,
        adj_cols |-> IF adj_in THEN DictGet(adj, key).cols ELSE -1,
        x_rows |-> IF src_in THEN acc.heap[DictGet(xd, key[1])].rows ELSE -1,
        out_rows |-> IF dst_in THEN acc.heap[DictGet(acc.out, key[3])].rows ELSE -1]

EdgeCheckOk(c) ==
    /\ c.src_in /\ c.adj_in /\ c.lin_in /\ c.dst_in
    /\ c.adj_cols = c.x_rows
    /\ AddInPlaceOk(c.out_rows, c.adj_rows)

\* for key in self.edge_types: ... out_dict[key[2]].add_(out)
RECURSIVE EdgeLoop(_, _, _, _, _)
EdgeLoop(conv, xd, adj, acc, i) ==
    IF i > Len(conv.edge_types) \/ acc.err THEN acc
    ELSE LET key == conv.edge_types[i]
             c == EdgeCheck(conv, xd, adj, acc, key)
         IN IF ~EdgeCheckOk(c)
            THEN [acc EXCEPT !.err = TRUE, !.checks = @ \cup {c}]
            ELSE EdgeLoop(conv, xd, adj,
                          [acc EXCEPT
                              !.heap = InPlace(@, DictGet(acc.out, key[3])),
                              !.checks = @ \cup {c}],
                          i + 1)

\* RGCNConv.forward: the new out_dict, the heap with its tensors, whether an
\* exception was raised, and what the edge loop looked up.
ConvForward(conv, xd, adj, h) ==
    EdgeLoop(conv, xd, adj,
             RootLoop(conv, xd, [out |-> <<>>, heap |-> h, err |-> FALSE, checks |-> {}], 1),
             1)

(***************************************************************************)
(* RGCN                                                                    *)
(***************************************************************************)
\* A faulty variant: range(num_layers).
HiddenLayersOffByOne(num_layers) == IF num_layers > 0 THEN num_layers ELSE 0

\* range(num_layers - 1)
HiddenLayers(num_layers) == IF num_layers - 1 > 0 THEN num_layers - 1 ELSE 0

\* A faulty variant: the filter tests the source, keys[0].
OutputEdgeTypesBySource(edge_types, out_type) ==
    SelectSeq(edge_types, LAMBDA keys : keys[1] = out_type)

\* edge_types = [keys for keys in edge_types if keys[2] == out_type]
OutputEdgeTypes(edge_types, out_type) ==
    SelectSeq(edge_types, LAMBDA keys : keys[3] = out_type)

\* set(node_types).difference(set(x_types)), with the tensor of each embedding:
\* embeddings are allocated after the first free tensors of the heap.
EmbKeys(node_types, x_types) ==
    SelectSeq(node_types, LAMBDA key : key \notin SeqSet(x_types))

RGCNInit(num_layers, nodes, x_types, edge_types, out_type, free) ==
    LET node_types == DictKeys(nodes)
        emb_keys == EmbKeys(node_types, x_types)
    IN [out_type |-> out_type,
        embs |-> [i \in 1..Len(emb_keys) |-> [k |-> emb_keys[i], v |-> free + i]],
        lins |-> SeqSet(x_types),
        convs |-> [i \in 1..HiddenLayers(num_layers) |->
                      RGCNConvInit("hidden", "hidden", node_types, edge_types)]
                  \o <<RGCNConvInit("hidden", "out", <<out_type>>,
                                    OutputEdgeTypes(edge_types, out_type))>>]

ConvsResetParameters(m) ==
    UNION {ConvResetParameters(m.convs[i], i) : i \in 1..Len(m.convs)}

\* Every learnable parameter of the module (model.parameters()).
Parameters(m) ==
    {<<"emb", 0, k>> : k \in DictKeySet(m.embs)}
    \cup {<<"lin", 0, k>> : k \in m.lins}
    \cup ConvsResetParameters(m)

\* A faulty variant: reset_parameters without its loop over the convs.
ResetParametersNoConvs(m) ==
    {<<"emb", 0, k>> : k \in DictKeySet(m.embs)} \cup {<<"lin", 0, k>> : k \in m.lins}

\* The parameters RGCN.reset_parameters re-initialises.
ResetParametersSet(m) ==
    {<<"emb", 0, k>> : k \in DictKeySet(m.embs)}
    \cup {<<"lin", 0, k>> : k \in m.lins}
    \cup ConvsResetParameters(m)

(***************************************************************************)
(* RGCN.forward.  The name x_dict of the frame refers either to the        *)
(* caller's dict object ("data") or to a dict of the frame ("local").      *)
(***************************************************************************)
\* A faulty variant: forward works on the caller's dict.
ShallowCopyAlias(env) == env

\* x_dict = copy.copy(x_dict)
ShallowCopy(env) == [env EXCEPT !.local = env.data, !.ref = "local"]

EnvDict(env) == IF env.ref = "data" THEN env.data ELSE env.local

\* x_dict[key] = val
EnvSet(env, key, val) ==
    IF env.ref = "data"
    THEN [env EXCEPT !.data = DictSet(@, key, val)]
    ELSE [env EXCEPT !.local = DictSet(@, key, val)]

\* for key, x in x_dict.items(): x_dict[key] = self.lins[key](x)
RECURSIVE LinsLoop(_, _, _, _)
LinsLoop(m, items, env, i) ==
    IF i > Len(items) \/ env.err THEN env
    ELSE IF items[i].k \notin m.lins
         THEN [env EXCEPT !.err = TRUE]
         ELSE LinsLoop(m, items,
                       [EnvSet(env, items[i].k, Len(env.heap) + 1) EXCEPT
                           !.heap = Append(@, NewTensor(env.heap[items[i].v].rows))],
                       i + 1)

\* for key, emb in self.embs.items(): x_dict[key] = emb
RECURSIVE EmbsLoop(_, _, _)
EmbsLoop(m, env, i) ==
    IF i > Len(m.embs) THEN env
    ELSE EmbsLoop(m, EnvSet(env, m.embs[i].k, m.embs[i].v), i + 1)

\* for key, x in x_dict.items(): relu_ in place, then dropout.
\* F.dropout returns its input when not training, a new tensor otherwise.
RECURSIVE ActivationLoop(_, _, _, _)
ActivationLoop(xd, h, training, i) ==
    IF i > Len(xd) THEN [out |-> xd, heap |-> h]
    ELSE LET h1 == InPlace(h, xd[i].v)
         IN IF training
            THEN ActivationLoop([xd EXCEPT ![i].v = Len(h1) + 1],
                                Append(h1, NewTensor(h1[xd[i].v].rows)), training, i + 1)
            ELSE ActivationLoop(xd, h1, training, i + 1)

NoFrame ==
    [caller |-> "none", training |-> FALSE, ref |-> "data", local |-> <<>>,
     layer |-> 0, hidden |-> 0, output |-> 0, checks |-> {}, out_rows |-> -1]

\* Tensors that outlive a forward call: the features and the embeddings.
Persistent == Len(loaded.x_types) + Len(model.embs)

(***************************************************************************)
(* main()                                                                  *)
(***************************************************************************)
NoResult == [run |-> -1, epoch |-> -1]

Event(op, r, e, res) == [op |-> op, run |-> r, epoch |-> e, res |-> res]

\* The state after dataset[0] and get_idx_split(): lines 156 to 181.
Init ==
    \E ds \in Datasets,
       nl \in LayersDom, ne \in EpochsDom, nr \in RunsDom, ls \in LogStepsDom :
        LET rels == ds.relations
            all_x == ds.all_x
            types == SelectSeq(NodeTypeOrder,
                        LAMBDA t : t = "paper" \/ \E i \in 1..Len(rels) : t \in {rels[i][1], rels[i][3]})
            x_types == IF all_x THEN types ELSE <<"paper">>
        IN /\ pc = "convert"
           /\ args = [num_layers |-> nl, epochs |-> ne, runs |-> nr, log_steps |-> ls]
           /\ num_nodes_dict = [i \in 1..Len(types) |-> [k |-> types[i], v |-> NumNodesOf(types[i])]]
           /\ edge_index_dict = rels
           /\ loaded = [relations |-> rels, x_types |-> x_types]
           /\ x_dict = [i \in 1..Len(x_types) |-> [k |-> x_types[i], v |-> i]]
           /\ heap = [i \in 1..Len(x_types) |-> NewTensor(NumNodesOf(x_types[i]))]
           /\ adj_t_dict = None
           /\ conv_i = 0
           /\ model = None
           /\ param_tag = <<>>
           /\ optimizer = None
           /\ run = -1
           /\ epoch = -1
           /\ loss = NoResult
           /\ result = NoResult
           /\ events = <<>>
           /\ printed = <<>>
           /\ fwd = NoFrame
           /\ lay = None

\* data.adj_t_dict = {}
ConvertBegin ==
    /\ pc = "convert"
    /\ adj_t_dict' = <<>>
    /\ conv_i' = 1
    /\ pc' = "convert_loop"
    /\ UNCHANGED <<args, num_nodes_dict, edge_index_dict, loaded, x_dict, model, heap,
                   param_tag, optimizer, run, epoch, loss, result, events, printed, fwd, lay>>

\* A faulty variant: adj under keys and adj.t() under the reverse key.
ConvertEntriesUntransposed(d, keys, nodes) ==
    LET sizes == <<DictGet(nodes, keys[1]), DictGet(nodes, keys[3])>>
        adj == SparseTensor(keys, sizes)
    IN IF keys[1] # keys[3]
       THEN DictSet(DictSet(d, keys, adj), <<keys[3], "to", keys[1]>>, Transpose(adj))
       ELSE DictSet(d, keys, ToSymmetric(adj))

\* The entries one relation contributes to adj_t_dict.
ConvertEntries(d, keys, nodes) ==
    LET sizes == <<DictGet(nodes, keys[1]), DictGet(nodes, keys[3])>>
        adj == SparseTensor(keys, sizes)
    IN IF keys[1] # keys[3]
       THEN DictSet(DictSet(d, keys, Transpose(adj)), <<keys[3], "to", keys[1]>>, adj)
       ELSE DictSet(d, keys, ToSymmetric(adj))

\* One iteration of: for keys, (row, col) in data.edge_index_dict.items()
ConvertStep ==
    /\ pc = "convert_loop"
    /\ conv_i <= Len(edge_index_dict)
    /\ adj_t_dict' = ConvertEntries(adj_t_dict, edge_index_dict[conv_i], num_nodes_dict)
    /\ conv_i' = conv_i + 1
    /\ UNCHANGED <<pc, args, num_nodes_dict, edge_index_dict, loaded, x_dict, model, heap,
                   param_tag, optimizer, run, epoch, loss, result, events, printed, fwd, lay>>

\* data.edge_index_dict = None
ConvertEnd ==
    /\ pc = "convert_loop"
    /\ conv_i > Len(edge_index_dict)
    /\ edge_index_dict' = None
    /\ pc' = "construct"
    /\ UNCHANGED <<args, num_nodes_dict, loaded, x_dict, adj_t_dict, conv_i, model, heap,
                   param_tag, optimizer, run, epoch, loss, result, events, printed, fwd, lay>>

\* model = RGCN(...), whose __init__ ends with reset_parameters(); Logger(...)
Construct ==
    /\ pc = "construct"
    /\ LET m == RGCNInit(args.num_layers, num_nodes_dict, DictKeys(x_dict),
                         DictKeys(adj_t_dict), "paper", Len(heap))
       IN /\ model' = m
          /\ heap' = heap \o [i \in 1..Len(m.embs) |->
                                 NewTensor(DictGet(num_nodes_dict, m.embs[i].k))]
          /\ param_tag' = [p \in Parameters(m) |-> {-1}]
    /\ run' = 0
    /\ pc' = "run_head"
    /\ UNCHANGED <<args, num_nodes_dict, edge_index_dict, loaded, x_dict, adj_t_dict, conv_i,
                   optimizer, epoch, loss, result, events, printed, fwd, lay>>

\* for run in range(args.runs): model.reset_parameters()
ResetParameters ==
    /\ pc = "run_head"
    /\ run < args.runs
    /\ param_tag' = [p \in DOMAIN param_tag |->
                        IF p \in ResetParametersSet(model) THEN {run} ELSE param_tag[p]]
    /\ events' = Append(events, Event("reset_parameters", run, 0, NoResult))
    /\ pc' = "optimizer"
    /\ UNCHANGED <<args, num_nodes_dict, edge_index_dict, loaded, x_dict, adj_t_dict, conv_i,
                   model, heap, optimizer, run, epoch, loss, result, printed, fwd, lay>>

\* optimizer = torch.optim.Adam(model.parameters(), lr=args.lr)
NewOptimizer ==
    /\ pc = "optimizer"
    /\ optimizer' = [params |-> Parameters(model), state |-> {run}, steps |-> 0]
    /\ epoch' = 1
    /\ pc' = "epoch_head"
    /\ UNCHANGED <<args, num_nodes_dict, edge_index_dict, loaded, x_dict, adj_t_dict, conv_i,
                   model, heap, param_tag, run, loss, result, events, printed, fwd, lay>>

\* for epoch in range(1, 1 + args.epochs): train(...): model.train(),
\* optimizer.zero_grad(), and the call model(x_dict, adj_t_dict)
TrainCall ==
    /\ pc = "epoch_head"
    /\ epoch <= args.epochs
    /\ events' = Append(events, Event("train", run, epoch, NoResult))
    /\ fwd' = [NoFrame EXCEPT !.caller = "train", !.training = TRUE]
    /\ pc' = "fwd_input"
    /\ UNCHANGED <<args, num_nodes_dict, edge_index_dict, loaded, x_dict, adj_t_dict, conv_i,
                   model, heap, param_tag, optimizer, run, epoch, loss, result, printed, lay>>

\* RGCN.forward, lines 102 to 108
ForwardInput ==
    /\ pc = "fwd_input"
    /\ LET env0 == ShallowCopy([data |-> x_dict, local |-> <<>>, ref |-> "data",
                                heap |-> heap, err |-> FALSE])
           env1 == LinsLoop(model, EnvDict(env0), env0, 1)
           env2 == EmbsLoop(model, env1, 1)
       IN /\ x_dict' = env2.data
          /\ heap' = env2.heap
          /\ fwd' = [fwd EXCEPT !.ref = env2.ref, !.local = env2.local, !.layer = 1]
          /\ pc' = IF env1.err THEN "error" ELSE "fwd_conv"
    /\ UNCHANGED <<args, num_nodes_dict, edge_index_dict, loaded, adj_t_dict, conv_i,
                   model, param_tag, optimizer, run, epoch, loss, result, events, printed, lay>>

\* One iteration of: for conv in self.convs[:-1]
ForwardHidden ==
    /\ pc = "fwd_conv"
    /\ fwd.layer < Len(model.convs)
    /\ LET xin == IF fwd.ref = "data" THEN x_dict ELSE fwd.local
           r == ConvForward(model.convs[fwd.layer], xin, adj_t_dict, heap)
           a == ActivationLoop(r.out, r.heap, fwd.training, 1)
       IN /\ heap' = IF r.err THEN r.heap ELSE a.heap
          /\ fwd' = [fwd EXCEPT !.ref = "local",
                                !.local = IF r.err THEN r.out ELSE a.out,
                                !.layer = @ + 1,
                                !.hidden = @ + 1,
                                !.checks = @ \cup {[layer |-> fwd.layer, c |-> c] : c \in r.checks}]
          /\ pc' = IF r.err THEN "error" ELSE "fwd_conv"
    /\ UNCHANGED <<args, num_nodes_dict, edge_index_dict, loaded, x_dict, adj_t_dict, conv_i,
                   model, param_tag, optimizer, run, epoch, loss, result, events, printed, lay>>

\* out = self.convs[-1](x_dict, adj_t_dict)[self.out_type]; log_softmax; return.
\* The tensors of the call go out of scope.
ForwardOutput ==
    /\ pc = "fwd_conv"
    /\ fwd.layer >= Len(model.convs)
    /\ LET xin == IF fwd.ref = "data" THEN x_dict ELSE fwd.local
           r == ConvForward(model.convs[Len(model.convs)], xin, adj_t_dict, heap)
           ok == ~r.err /\ DictHas(r.out, model.out_type)
       IN /\ heap' = SubSeq(r.heap, 1, Persistent)
          /\ fwd' = [fwd EXCEPT !.output = @ + 1,
                                !.layer = @ + 1,
                                !.checks = @ \cup {[layer |-> Len(model.convs), c |-> c] : c \in r.checks},
                                !.out_rows = IF ok THEN r.heap[DictGet(r.out, model.out_type)].rows
                                             ELSE -1]
          /\ pc' = IF ~ok THEN "error"
                   ELSE IF fwd.caller = "train" THEN "train_step" ELSE "test_eval"
    /\ UNCHANGED <<args, num_nodes_dict, edge_index_dict, loaded, x_dict, adj_t_dict, conv_i,
                   model, param_tag, optimizer, run, epoch, loss, result, events, printed, lay>>

\* loss = F.nll_loss(...); loss.backward(); optimizer.step(); return loss.item()
\* The step writes every parameter from its value, its gradient (which depends
\* on every parameter) and the optimizer's state.
TrainStep ==
    /\ pc = "train_step"
    /\ LET used == UNION {param_tag[p] : p \in DOMAIN param_tag} \cup optimizer.state \cup {run}
       IN /\ param_tag' = [p \in DOMAIN param_tag |->
                              IF p \in optimizer.params THEN used ELSE param_tag[p]]
          /\ optimizer' = [optimizer EXCEPT !.state = used, !.steps = @ + 1]
    /\ loss' = [run |-> run, epoch |-> epoch]
    /\ pc' = "test"
    /\ UNCHANGED <<args, num_nodes_dict, edge_index_dict, loaded, x_dict, adj_t_dict, conv_i,
                   model, heap, run, epoch, result, events, printed, fwd, lay>>

\* test(...): model.eval() and the call model(x_dict, adj_t_dict)
TestCall ==
    /\ pc = "test"
    /\ events' = Append(events, Event("test", run, epoch, NoResult))
    /\ fwd' = [NoFrame EXCEPT !.caller = "test", !.training = FALSE]
    /\ pc' = "fwd_input"
    /\ UNCHANGED <<args, num_nodes_dict, edge_index_dict, loaded, x_dict, adj_t_dict, conv_i,
                   model, heap, param_tag, optimizer, run, epoch, loss, result, printed, lay>>

\* argmax, the three evaluator.eval calls, return train_acc, valid_acc, test_acc
TestEval ==
    /\ pc = "test_eval"
    /\ result' = [run |-> run, epoch |-> epoch]
    /\ pc' = "add_result"
    /\ UNCHANGED <<args, num_nodes_dict, edge_index_dict, loaded, x_dict, adj_t_dict, conv_i,
                   model, heap, param_tag, optimizer, run, epoch, loss, events, printed, fwd, lay>>

\* A faulty variant: add_result inside the if of the epoch log.
AddResultWhenLogged ==
    /\ pc = "add_result"
    /\ events' = IF args.log_steps # 0 /\ PyMod(epoch, args.log_steps) = 0
                 THEN Append(events, Event("add_result", run, epoch, result))
                 ELSE events
    /\ pc' = "log"
    /\ UNCHANGED <<args, num_nodes_dict, edge_index_dict, loaded, x_dict, adj_t_dict, conv_i,
                   model, heap, param_tag, optimizer, run, epoch, loss, result, printed, fwd, lay>>

\* logger.add_result(run, result)
AddResult ==
    /\ pc = "add_result"
    /\ events' = Append(events, Event("add_result", run, epoch, result))
    /\ pc' = "log"
    /\ UNCHANGED <<args, num_nodes_dict, edge_index_dict, loaded, x_dict, adj_t_dict, conv_i,
                   model, heap, param_tag, optimizer, run, epoch, loss, result, printed, fwd, lay>>

\* A faulty variant: log_steps is ignored.
LogDueAlways(e, log_steps) == TRUE

\* if epoch % args.log_steps == 0: (ZeroDivisionError when log_steps is 0)
LogDue(e, log_steps) == PyMod(e, log_steps) = 0

\* The epoch log, lines 241 to 248, and the next epoch.
LogEpoch ==
    /\ pc = "log"
    /\ IF args.log_steps = 0
       THEN /\ pc' = "crashed"
            /\ UNCHANGED <<printed, epoch>>
       ELSE /\ printed' = IF LogDue(epoch, args.log_steps)
                          THEN Append(printed, [run |-> run + 1, epoch |-> epoch,
                                                loss |-> loss, result |-> result])
                          ELSE printed
            /\ epoch' = epoch + 1
            /\ pc' = "epoch_head"
    /\ UNCHANGED <<args, num_nodes_dict, edge_index_dict, loaded, x_dict, adj_t_dict, conv_i,
                   model, heap, param_tag, optimizer, run, loss, result, events, fwd, lay>>

\* logger.print_statistics(run), and the next run
PrintStatisticsRun ==
    /\ pc = "epoch_head"
    /\ epoch > args.epochs
    /\ events' = Append(events, Event("print_statistics", run, 0, NoResult))
    /\ run' = run + 1
    /\ pc' = "run_head"
    /\ UNCHANGED <<args, num_nodes_dict, edge_index_dict, loaded, x_dict, adj_t_dict, conv_i,
                   model, heap, param_tag, optimizer, epoch, loss, result, printed, fwd, lay>>

\* logger.print_statistics()
PrintStatisticsAll ==
    /\ pc = "run_head"
    /\ run >= args.runs
    /\ events' = Append(events, Event("print_statistics_all", -1, 0, NoResult))
    /\ pc' = "done"
    /\ UNCHANGED <<args, num_nodes_dict, edge_index_dict, loaded, x_dict, adj_t_dict, conv_i,
                   model, heap, param_tag, optimizer, run, epoch, loss, result, printed, fwd, lay>>

Next ==
    \/ ConvertBegin
    \/ ConvertStep
    \/ ConvertEnd
    \/ Construct
    \/ ResetParameters
    \/ NewOptimizer
    \/ TrainCall
    \/ ForwardInput
    \/ ForwardHidden
    \/ ForwardOutput
    \/ TrainStep
    \/ TestCall
    \/ TestEval
    \/ AddResult
    \/ LogEpoch
    \/ PrintStatisticsRun
    \/ PrintStatisticsAll

Spec == Init /\ [][Next]_vars

(***************************************************************************)
(* RGCNConv.forward on numbers.  Tensors have one channel and hold one     *)
(* integer per node; a Linear is a weight (and a bias for root_lins); a    *)
(* sparse matrix is the set of its non-zero <<row, column>> positions.     *)
(* Features are even and no node type has more than two nodes, so every    *)
(* mean is a whole number.                                                 *)
(***************************************************************************)
MaxEdgeTypes == 2

LayerNodeTypes == <<"a", "a_b">>

LayerNodes == 1..2

LayerEdgeUniverse ==
    { <<"a", "b_a", "a">>,
      <<"a_b", "a", "a">>,
      <<"a", "a", "a_b">>,
      <<"a_b", "b_a", "a_b">> }

LayerAdjChoices ==
    { { <<1, 1>>, <<1, 2>>, <<2, 2>> }, { <<1, 2>> } }

LayerFeatureChoices ==
    { [t \in SeqSet(LayerNodeTypes) |-> IF t = "a" THEN <<2, 4>> ELSE <<6, 10>>],
      [t \in SeqSet(LayerNodeTypes) |-> IF t = "a" THEN <<4, 0>> ELSE <<2, 8>>] }

LayerRootChoices ==
    { [t \in SeqSet(LayerNodeTypes) |-> IF t = "a" THEN [w |-> 1, b |-> 0] ELSE [w |-> 2, b |-> 1]],
      [t \in SeqSet(LayerNodeTypes) |-> IF t = "a" THEN [w |-> 3, b |-> 1] ELSE [w |-> 1, b |-> 2]] }

LayerWeights == {1, 2}

RECURSIVE SumOver(_, _)
SumOver(S, f) ==
    IF S = {} THEN 0
    ELSE LET e == CHOOSE e \in S : TRUE IN f[e] + SumOver(S \ {e}, f)

\* adj_t.matmul(x, reduce='mean'): row i is the mean of x over the non-zero
\* columns of row i, and 0 when the row is empty.
MatmulMean(adj_t, x) ==
    [i \in LayerNodes |->
        LET cols == {j \in LayerNodes : <<i, j>> \in adj_t}
        IN IF cols = {} THEN 0 ELSE SumOver(cols, x) \div Cardinality(cols)]

\* Linear(in_channels, out_channels, bias=False)
RelLinear(lin, x) == [i \in 1..Len(x) |-> lin.w * x[i]]

\* Linear(in_channels, out_channels, bias=True)
RootLinear(lin, x) == [i \in 1..Len(x) |-> lin.w * x[i] + lin.b]

\* Tensor.add_
AddTensors(a, b) == [i \in 1..Len(a) |-> a[i] + b[i]]

\* The dict comprehension of rel_lins: one Linear per key string, the one made
\* for the last edge type with that string; its weight is the store's.
RECURSIVE RelLins(_, _, _, _)
RelLins(edge_types, store, d, i) ==
    IF i > Len(edge_types) THEN d
    ELSE RelLins(edge_types, store,
                 DictSet(d, KeyStr(edge_types[i]),
                         [made_for |-> edge_types[i], w |-> store.rel[KeyStr(edge_types[i])]]),
                 i + 1)

\* RGCNConv.__init__ with the weights of the store.
NumConvInit(node_types, edge_types, store) ==
    [node_types |-> node_types,
     edge_types |-> edge_types,
     rel_lins |-> RelLins(edge_types, store, <<>>, 1),
     root_lins |-> [i \in 1..Len(node_types) |->
                       [k |-> node_types[i], v |-> store.root[node_types[i]]]]]

\* out_dict[key] = self.root_lins[key](x_dict[key])
RootStep(conv, x, out, key) ==
    DictSet(out, key, RootLinear(DictGet(conv.root_lins, key), x[key]))

\* The node type whose output an edge type is added to: key[2] in the source.
EdgeTarget(key) == key[3]

\* The body of the edge loop, lines 50 to 54.
EdgeStep(conv, x, adj, out, key) ==
    LET key_str == KeyStr(key)
        xs == x[key[1]]
        adj_t == adj[key]
        o == RelLinear(DictGet(conv.rel_lins, key_str), MatmulMean(adj_t, xs))
    IN DictSet(out, EdgeTarget(key), AddTensors(DictGet(out, EdgeTarget(key)), o))

mainvars == <<pc, args, num_nodes_dict, edge_index_dict, loaded, x_dict, adj_t_dict,
              conv_i, model, heap, param_tag, optimizer, run, epoch, loss, result,
              events, printed, fwd>>

\* The inputs of the layer, the full conv over all node and edge types and the
\* last conv of RGCN.__init__ (output type only), both with the store's weights.
InitLayer ==
    /\ pc = "layer"
    /\ args = None /\ num_nodes_dict = <<>> /\ edge_index_dict = None /\ loaded = None
    /\ x_dict = <<>> /\ adj_t_dict = <<>> /\ conv_i = 0 /\ model = None /\ heap = <<>>
    /\ param_tag = <<>> /\ optimizer = None /\ run = -1 /\ epoch = -1
    /\ loss = NoResult /\ result = NoResult /\ events = <<>> /\ printed = <<>>
    /\ fwd = NoFrame
    /\ \E edge_types \in DistinctSeqs(LayerEdgeUniverse, MaxEdgeTypes),
          out_type \in SeqSet(LayerNodeTypes),
          x \in LayerFeatureChoices,
          root \in LayerRootChoices :
          \E adj \in [SeqSet(edge_types) -> LayerAdjChoices],
             rel \in [{KeyStr(edge_types[i]) : i \in 1..Len(edge_types)} -> LayerWeights] :
             LET store == [rel |-> rel, root |-> root]
             IN lay = [pc |-> "call",
                       which |-> "full",
                       out_type |-> out_type,
                       x_dict |-> x,
                       adj_t_dict |-> adj,
                       full |-> NumConvInit(LayerNodeTypes, edge_types, store),
                       last |-> NumConvInit(<<out_type>>, OutputEdgeTypes(edge_types, out_type), store),
                       i |-> 0,
                       out_dict |-> <<>>,
                       out_full |-> <<>>,
                       out_last |-> <<>>]

LayerConv == IF lay.which = "full" THEN lay.full ELSE lay.last

\* conv(x_dict, adj_t_dict): out_dict = {}
LayerCall ==
    /\ lay.pc = "call"
    /\ lay' = [lay EXCEPT !.pc = "root", !.i = 1, !.out_dict = <<>>]
    /\ UNCHANGED mainvars

\* One iteration of: for key in self.node_types
LayerRoot ==
    /\ lay.pc = "root"
    /\ lay.i <= Len(LayerConv.node_types)
    /\ lay' = [lay EXCEPT
                  !.out_dict = RootStep(LayerConv, lay.x_dict, @, LayerConv.node_types[lay.i]),
                  !.i = IF lay.i = Len(LayerConv.node_types) THEN 1 ELSE @ + 1,
                  !.pc = IF lay.i = Len(LayerConv.node_types) THEN "edges" ELSE "root"]
    /\ UNCHANGED mainvars

\* One iteration of: for key in self.edge_types (KeyError when out_dict has
\* no tensor for the destination)
LayerEdge ==
    /\ lay.pc = "edges"
    /\ lay.i <= Len(LayerConv.edge_types)
    /\ LET key == LayerConv.edge_types[lay.i]
       IN lay' = IF DictHas(lay.out_dict, EdgeTarget(key))
                 THEN [lay EXCEPT
                          !.out_dict = EdgeStep(LayerConv, lay.x_dict, lay.adj_t_dict, @, key),
                          !.i = @ + 1]
                 ELSE [lay EXCEPT !.pc = "error"]
    /\ UNCHANGED mainvars

\* return out_dict
LayerReturn ==
    /\ lay.pc = "edges"
    /\ lay.i > Len(LayerConv.edge_types)
    /\ lay' = IF lay.which = "full"
              THEN [lay EXCEPT !.out_full = lay.out_dict, !.which = "last", !.pc = "call"]
              ELSE [lay EXCEPT !.out_last = lay.out_dict, !.pc = "done"]
    /\ UNCHANGED mainvars

NextLayer ==
    \/ LayerCall
    \/ LayerRoot
    \/ LayerEdge
    \/ LayerReturn

SpecLayer == InitLayer /\ [][NextLayer]_vars

(***************************************************************************)
(* Properties of RGCNConv.forward                                          *)
(***************************************************************************)
\* The edge types of a conv that end in node type t, by position.
Incoming(conv, t) == {i \in 1..Len(conv.edge_types) : conv.edge_types[i][3] = t}

\* The transformed mean aggregate of the i-th edge type of a conv.
Message(conv, i) ==
    LET key == conv.edge_types[i]
    IN RelLinear(DictGet(conv.rel_lins, KeyStr(key)),
                 MatmulMean(lay.adj_t_dict[key], lay.x_dict[key[1]]))

\* The value the claim gives node type t: root transform plus one message per
\* incoming edge type.
SummedValue(conv, t) ==
    [n \in LayerNodes |->
        RootLinear(DictGet(conv.root_lins, t), lay.x_dict[t])[n]
        + SumOver(Incoming(conv, t), [i \in Incoming(conv, t) |-> Message(conv, i)[n]])]

ValuesAsSummed(conv, out) ==
    /\ DictKeySet(out) = SeqSet(conv.node_types)
    /\ \A t \in DictKeySet(out) : DictGet(out, t) = SummedValue(conv, t)

\* Each edge type is transformed by the Linear made for it.
TransformsSpecific(conv) ==
    \A i \in 1..Len(conv.edge_types) :
        DictGet(conv.rel_lins, KeyStr(conv.edge_types[i])).made_for = conv.edge_types[i]

FullReturned == lay.which = "last"

LastReturned == lay.pc = "done"

\* C6: the last layer, restricted to the output type and the edge types that
\* end in it, gives the output type the value the conv over all node and edge
\* types gives it with the same weights; neither call raises.
C6_RestrictionLosesNothing ==
    /\ lay.pc # "error"
    /\ LastReturned =>
          DictGet(lay.out_last, lay.out_type) = DictGet(lay.out_full, lay.out_type)

C6_Witness ==
    /\ LastReturned
    /\ Len(lay.last.edge_types) = 1
    /\ Len(lay.full.edge_types) = 2
    /\ DictGet(lay.out_last, lay.out_type)
          # RootLinear(DictGet(lay.last.root_lins, lay.out_type), lay.x_dict[lay.out_type])

\* The part of C7 that holds: the keys are the node types and each value is
\* the root transform plus one message per incoming edge type, whatever the
\* order of the edge types.
C7_ValuesAsSummed ==
    /\ FullReturned => ValuesAsSummed(lay.full, lay.out_full)
    /\ LastReturned => ValuesAsSummed(lay.last, lay.out_last)

\* C7: forward returns a dict keyed by the node types whose value for t is the
\* root transform of x_dict[t] plus, once for every edge type (s, r, d) with
\* d = t, the transform specific to (s, r, d) of the mean aggregate, in any
\* order of the edge types.
C7_SumOfSpecificTransforms ==
    /\ FullReturned => ValuesAsSummed(lay.full, lay.out_full) /\ TransformsSpecific(lay.full)
    /\ LastReturned => ValuesAsSummed(lay.last, lay.out_last) /\ TransformsSpecific(lay.last)

(***************************************************************************)
(* Properties of main()                                                    *)
(***************************************************************************)
IsPrefix(s, t) == Len(s) <= Len(t) /\ \A i \in 1..Len(s) : s[i] = t[i]

Converted == pc \notin {"convert", "convert_loop"}

Constructed == pc \notin {"convert", "convert_loop", "construct"}

\* The calls of one epoch, in order; add_result carries the result of the
\* test call of that run and epoch.
EpochCalls(r, e) ==
    << [op |-> "train", run |-> r, epoch |-> e, res |-> NoResult],
       [op |-> "test", run |-> r, epoch |-> e, res |-> NoResult],
       [op |-> "add_result", run |-> r, epoch |-> e, res |-> [run |-> r, epoch |-> e]] >>

RECURSIVE EpochsCalls(_, _, _)
EpochsCalls(r, e, epochs) ==
    IF e > epochs THEN <<>> ELSE EpochCalls(r, e) \o EpochsCalls(r, e + 1, epochs)

RECURSIVE RunsCalls(_, _, _)
RunsCalls(r, runs, epochs) ==
    IF r >= runs
    THEN << [op |-> "print_statistics_all", run |-> -1, epoch |-> 0, res |-> NoResult] >>
    ELSE << [op |-> "reset_parameters", run |-> r, epoch |-> 0, res |-> NoResult] >>
         \o EpochsCalls(r, 1, epochs)
         \o << [op |-> "print_statistics", run |-> r, epoch |-> 0, res |-> NoResult] >>
         \o RunsCalls(r + 1, runs, epochs)

ResultsBefore(i, r) ==
    Cardinality({j \in 1..(i - 1) : events[j].op = "add_result" /\ events[j].run = r})

RECURSIVE LoggedEpochs(_)
LoggedEpochs(evs) ==
    IF evs = <<>> THEN <<>>
    ELSE LET rest == LoggedEpochs(Tail(evs))
         IN IF Head(evs).op = "add_result" THEN <<Head(evs)>> \o rest ELSE rest

PassedLog ==
    LET added == LoggedEpochs(events)
    IN IF pc \in {"log", "crashed"} THEN SubSeq(added, 1, Len(added) - 1) ELSE added

LineOf(ev) ==
    [run |-> ev.run + 1, epoch |-> ev.epoch,
     loss |-> [run |-> ev.run, epoch |-> ev.epoch],
     result |-> [run |-> ev.run, epoch |-> ev.epoch]]

Divides(d, n) == \E q \in -n..n : n = q * d

\* C2, as claimed: every epoch of every run prints one line with that epoch's
\* loss and accuracies.
C2_EveryEpochPrinted ==
    printed = [i \in 1..Len(PassedLog) |-> LineOf(PassedLog[i])]

\* C2, amended: the line of epoch e is printed exactly when log_steps divides
\* e; with log_steps = 0 the first epoch's test raises ZeroDivisionError and
\* nothing is printed.
C2_PrintedWhenDue ==
    /\ printed = [i \in 1..Len(SelectSeq(PassedLog, LAMBDA ev : Divides(args.log_steps, ev.epoch))) |->
                     LineOf(SelectSeq(PassedLog, LAMBDA ev : Divides(args.log_steps, ev.epoch))[i])]
    /\ args.log_steps = 0 => printed = <<>> /\ Len(LoggedEpochs(events)) <= 1
    /\ pc = "crashed" => args.log_steps = 0

C2_Witness ==
    /\ pc = "done"
    /\ args.log_steps = 2
    /\ args.epochs = 2
    /\ args.runs = 2
    /\ Len(printed) = 2

\* C3: when a run starts training, and at every train call of the run, every
\* learnable parameter and the optimizer's state come from this run alone:
\* reset_parameters re-initialised every parameter and a new optimizer was
\* made before the first train call.
C3_IndependentRuns ==
    /\ (pc = "epoch_head" /\ epoch = 1) =>
          /\ \A p \in Parameters(model) : param_tag[p] = {run}
          /\ optimizer.params = Parameters(model)
          /\ optimizer.state = {run}
          /\ optimizer.steps = 0
    /\ (fwd.caller = "train" /\ pc \in {"fwd_input", "fwd_conv", "train_step"}) =>
          /\ \A p \in Parameters(model) : param_tag[p] = {run}
          /\ optimizer.state = {run}

C3_Witness ==
    /\ pc = "train_step"
    /\ run = 1
    /\ epoch = 2
    /\ Len(model.convs) = 2
    /\ Cardinality(Parameters(model)) >= 6

ForwardReturned == pc \in {"train_step", "test_eval"}

\* C4, as claimed: the model holds num_layers conv layers and a forward pass
\* applies num_layers of them.
C4_DepthIsNumLayers ==
    /\ Constructed => Len(model.convs) = args.num_layers
    /\ ForwardReturned => fwd.hidden + fwd.output = args.num_layers

\* C4, amended: for num_layers >= 1 the model holds num_layers conv layers,
\* num_layers - 1 hidden ones over all node types and one output layer over
\* the output type, and a forward pass applies each once; for num_layers <= 0
\* the model holds and applies the output layer alone.
C4_DepthAtLeastOne ==
    LET depth == IF args.num_layers >= 1 THEN args.num_layers ELSE 1
    IN /\ Constructed =>
             /\ Len(model.convs) = depth
             /\ \A i \in 1..(depth - 1) :
                   model.convs[i].node_types = DictKeys(num_nodes_dict)
             /\ model.convs[depth].node_types = <<model.out_type>>
       /\ ForwardReturned => fwd.hidden = depth - 1 /\ fwd.output = 1

C4_Witness ==
    /\ pc = "test_eval"
    /\ args.num_layers = 2
    /\ fwd.hidden = 1
    /\ fwd.output = 1

\* C5: after the conversion every loaded relation (s, r, d) has its own entry,
\* with s # d an entry (d, 'to', s) holding exactly its edges, and with s = d
\* a symmetric entry.
C5_ReverseEdgesOfEveryRelation ==
    Converted =>
        \A i \in 1..Len(loaded.relations) :
            LET key == loaded.relations[i]
                rev == <<key[3], "to", key[1]>>
            IN /\ DictHas(adj_t_dict, key)
               /\ DictGet(adj_t_dict, key).rel = key
               /\ key[1] # key[3] =>
                     /\ DictHas(adj_t_dict, rev)
                     /\ DictGet(adj_t_dict, rev).rel = key
                     /\ DictGet(adj_t_dict, rev).form = "adj"
               /\ key[1] = key[3] => DictGet(adj_t_dict, key).form = "sym"

\* C8: every matrix of adj_t_dict under (s, r, d) has num_nodes_dict[d] rows
\* and num_nodes_dict[s] columns; in every conv layer of every forward pass
\* each edge type finds its source in x_dict and its destination in out_dict,
\* the product is defined and has the rows of the tensor it is added to; no
\* lookup or shape error is raised.
C8_ShapesConsistent ==
    /\ pc # "convert" =>
          \A i \in 1..Len(adj_t_dict) :
              /\ adj_t_dict[i].v.rows = DictGet(num_nodes_dict, adj_t_dict[i].k[3])
              /\ adj_t_dict[i].v.cols = DictGet(num_nodes_dict, adj_t_dict[i].k[1])
    /\ \A chk \in fwd.checks :
          /\ chk.c.src_in /\ chk.c.adj_in /\ chk.c.dst_in
          /\ chk.c.adj_cols = chk.c.x_rows
          /\ chk.c.adj_rows = chk.c.out_rows
    /\ pc # "error"

C8_Witness ==
    /\ pc = "train_step"
    /\ fwd.hidden = 1
    /\ \E chk \in fwd.checks :
          chk.layer = 1 /\ chk.c.key[1] # chk.c.key[3] /\ chk.c.adj_rows # chk.c.adj_cols
    /\ \E chk \in fwd.checks : chk.layer = 2

\* C9: no forward pass changes the caller's x_dict (same keys, same tensors,
\* never written in place); the embeddings are keyed by exactly the node
\* types without features, none of which has an input linear; the first conv
\* layer gets a dict keyed by exactly the node types.
C9_InputsKept ==
    /\ x_dict = [i \in 1..Len(loaded.x_types) |-> [k |-> loaded.x_types[i], v |-> i]]
    /\ \A i \in 1..Len(loaded.x_types) : heap[i] = NewTensor(NumNodesOf(loaded.x_types[i]))
    /\ Constructed =>
          /\ DictKeySet(model.embs) = DictKeySet(num_nodes_dict) \ SeqSet(loaded.x_types)
          /\ DictKeySet(model.embs) \cap model.lins = {}
    /\ (pc = "fwd_conv" /\ fwd.hidden = 0) =>
          /\ fwd.ref = "local"
          /\ DictKeySet(fwd.local) = DictKeySet(num_nodes_dict)

C9_Witness ==
    /\ pc = "test_eval"
    /\ epoch = 2
    /\ Len(model.embs) >= 2
    /\ fwd.hidden >= 1

====
